---- MODULE Spec2Model ----
(***************************************************************************)
(* PaymentRouter (src/contracts/src/PaymentRouter.sol): the payment        *)
(* orchestrator of NEXUS-402.  Every external function is one action.  For *)
(* each function an ...Error operator gives, for a state and the inputs,   *)
(* the message of the first require that stops the call, or OK; the action *)
(* is enabled when it is OK, since a reverted call changes nothing.        *)
(* createSplitPayment, which moves tokens in a loop, is modelled statement  *)
(* by statement, its failing calls included: a failing call is a step that  *)
(* records the error and commits nothing.  The ERC-20 token is an external  *)
(* collaborator: its ledger is `balances`.                                  *)
(*                                                                         *)
(* WorkflowEngine (src/unnamed/part_002): workflows are lists of steps     *)
(* with a success edge and a failure edge each; executeWorkflow walks the  *)
(* steps in one transaction.  It is modelled with its failing calls, like  *)
(* createSplitPayment.  The gas of a transaction pays for MaxGasSteps step *)
(* evaluations; a longer walk runs out of gas and reverts.                 *)
(***************************************************************************)
EXTENDS Integers, Sequences, FiniteSets, TLC

(* ------------------------------ bounds --------------------------------- *)
MaxTime == 2
MaxAmount == 2
MaxDuration == 2
MaxInstallments == 2
MaxPayments == 2
MaxNonce == 2
MaxWindow == 2
InitialBalance == 3
MaxListLen == 2
MaxStepCount == 2
MaxGasSteps == 4
MaxWorkflows == 2
MaxExecutions == 2
MaxFee == 2
InitialEther == 2

(* ------------------------ constants of the contract --------------------- *)
\* require(recipients.length > 0 && recipients.length <= 20, ...)
MaxSplitRecipients == 20
\* basis points: shares are out of 10000
BasisPointsTotal == 10000
\* require(steps.length <= 20, "Too many steps")
MaxWorkflowSteps == 20
\* type(uint256).max, the edge that names no step; here the largest integer
UintMax == 2147483647
\* uint256 public executionFee = 0.001 ether, in units of 0.001 ether
InitialExecutionFee == 1

(* ----------------------------- addresses ------------------------------- *)
ZeroAddress == "0x0"
Router == "router"
Oracle == "oracle"
Users == {"A", "B"}
Accounts == Users \cup {Router}
ConditionContracts == {ZeroAddress, Oracle}
ConditionDatas == {"0x"}
Nonces == 1..MaxNonce
\* the WorkflowEngine, its owner (the deployer), and the contracts a CUSTOM
\* step calls: "acceptor" takes the value and returns, "reentrant" calls
\* executeWorkflow of the engine and fails when that call fails
Engine == "engine"
EngineOwner == "A"
Acceptor == "acceptor"
Reentrant == "reentrant"
Targets == {Acceptor, Reentrant}
EtherAccounts == Users \cup {Engine} \cup Targets

VARIABLES
    now,                    \* block.timestamp
    balances,               \* the token ledger: account -> balance
    payments,               \* mapping(bytes32 => Payment)
    splitRecipients,        \* mapping(bytes32 => SplitRecipient[])
    streamingPayments,      \* mapping(bytes32 => StreamingPayment)
    conditionalPayments,    \* mapping(bytes32 => ConditionalPayment)
    recurringPayments,      \* mapping(bytes32 => RecurringPayment)
    userPayments,           \* mapping(address => bytes32[])
    usedNonces,             \* mapping(bytes32 => bool), as the set of true keys
    totalPaymentsProcessed,
    totalVolumeProcessed,
    workflows,              \* WorkflowEngine: mapping(bytes32 => Workflow)
    executions,             \* WorkflowEngine: mapping(bytes32 => WorkflowExecution[])
    userWorkflows,          \* WorkflowEngine: mapping(address => bytes32[])
    allWorkflowIds,         \* WorkflowEngine: bytes32[]
    totalWorkflows,
    totalExecutions,
    executionFee,
    ether,                  \* the native currency: account -> balance
    last                    \* the latest call

vars == <<now, balances, payments, splitRecipients, streamingPayments, conditionalPayments,
          recurringPayments, userPayments, usedNonces,
          totalPaymentsProcessed, totalVolumeProcessed, workflows, executions,
          userWorkflows, allWorkflowIds, totalWorkflows, totalExecutions,
          executionFee, ether, last>>

state == <<balances, payments, splitRecipients, streamingPayments, conditionalPayments,
           recurringPayments, userPayments, usedNonces,
           totalPaymentsProcessed, totalVolumeProcessed>>

\* the storage of the WorkflowEngine and the native currency it is paid in
engine == <<workflows, executions, userWorkflows, allWorkflowIds, totalWorkflows,
            totalExecutions, executionFee, ether>>

(* --------------------------- payment ids -------------------------------- *)
\* keccak256(abi.encodePacked(msg.sender, recipient, block.timestamp, salt)):
\* the id is a function of exactly these inputs, so equal inputs give equal ids.
PaymentId(salt, sender, recipient, timestamp) ==
    [salt |-> salt, sender |-> sender, recipient |-> recipient,
     amount |-> 0, timestamp |-> timestamp]

\* An id no create call has produced.
NoId == [salt |-> "NONE", sender |-> ZeroAddress, recipient |-> ZeroAddress,
         amount |-> 0, timestamp |-> 0]

(* ------------------- storage defaults (unset mapping slots) ------------- *)
ZeroPayment ==
    [payer |-> ZeroAddress, paymentType |-> "SIMPLE", totalAmount |-> 0,
     releasedAmount |-> 0, createdAt |-> 0, completedAt |-> 0,
     isCompleted |-> FALSE, isCancelled |-> FALSE]

ZeroStreamingPayment ==
    [recipient |-> ZeroAddress, totalAmount |-> 0, claimedAmount |-> 0,
     startTime |-> 0, endTime |-> 0, lastClaimTime |-> 0]

ZeroConditionalPayment ==
    [recipient |-> ZeroAddress, amount |-> 0, conditionContract |-> ZeroAddress,
     conditionData |-> "0x", isReleased |-> FALSE]

ZeroRecurringPayment ==
    [payer |-> ZeroAddress, recipient |-> ZeroAddress, amount |-> 0,
     interval |-> 0, nextPaymentTime |-> 0, totalPayments |-> 0,
     completedPayments |-> 0, isActive |-> FALSE]

Lookup(map, id, zero) == IF id \in DOMAIN map THEN map[id] ELSE zero

Store(map, id, value) ==
    [k \in DOMAIN map \cup {id} |-> IF k = id THEN value ELSE map[k]]

PaymentOf(id) == Lookup(payments, id, ZeroPayment)
StreamOf(id) == Lookup(streamingPayments, id, ZeroStreamingPayment)
ConditionalOf(id) == Lookup(conditionalPayments, id, ZeroConditionalPayment)
RecurringOf(id) == Lookup(recurringPayments, id, ZeroRecurringPayment)

KnownIds == DOMAIN payments \cup {NoId}

(* ------------------------------ the ledger ------------------------------ *)
\* IERC20.transfer / transferFrom through SafeERC20: the call reverts when the
\* source balance is short or the receiver is the zero address.
TransferOk(bal, from, to, amount) ==
    to # ZeroAddress /\ from # ZeroAddress /\ bal[from] >= amount

Transfer(bal, from, to, amount) ==
    [[bal EXCEPT ![from] = @ - amount] EXCEPT ![to] = @ + amount]

Xfer(from, to, amount) == [from |-> from, to |-> to, amount |-> amount]

(* ------------------------- the record of a call ------------------------- *)
\* The latest successful call.  op, caller, id: the function, msg.sender and
\* the paymentId it worked on; sent: the token transfers it made, in order;
\* predicate: the outcome of the staticcall to the condition contract, if made;
\* nonce, validAfter, validBefore: the authorization of a processX402Payment.
\* Where a function is modelled with its failing calls, error is the message of
\* the require or transfer that stopped the call (OK if none did) and undone
\* is the number of token transfers the call had made before it reverted.
\* events: the WorkflowStepExecuted events of an executeWorkflow, in order;
\* nested: the outcomes of the calls made back into the engine during it;
\* startStep, value: its startStep and msg.value.
Call(op, caller, id, sent) ==
    [op |-> op, caller |-> caller, id |-> id, nonce |-> 0,
     validAfter |-> 0, validBefore |-> 0, sent |-> sent, predicate |-> "none",
     error |-> "OK", undone |-> 0, events |-> <<>>, nested |-> <<>>,
     startStep |-> 0, value |-> 0]

OK == "OK"

\* Mutant of Committed: what a failed call did before it failed is kept.
CommittedAnyway(error, before, after) == after

\* A call that fails reverts: every storage write and token transfer it made
\* is discarded.
Committed(error, before, after) == IF error = OK THEN after ELSE before

Init ==
    /\ now = 0
    /\ balances = [a \in Accounts |-> IF a = "A" THEN InitialBalance ELSE 0]
    /\ payments = <<>>
    /\ splitRecipients = <<>>
    /\ streamingPayments = <<>>
    /\ conditionalPayments = <<>>
    /\ recurringPayments = <<>>
    /\ userPayments = [u \in Users |-> <<>>]
    /\ usedNonces = {}
    /\ totalPaymentsProcessed = 0
    /\ totalVolumeProcessed = 0
    /\ workflows = <<>>
    /\ executions = <<>>
    /\ userWorkflows = [u \in Users |-> <<>>]
    /\ allWorkflowIds = <<>>
    /\ totalWorkflows = 0
    /\ totalExecutions = 0
    /\ executionFee = InitialExecutionFee
    /\ ether = [a \in EtherAccounts |-> IF a \in Users THEN InitialEther ELSE 0]
    /\ last = Call("constructor", ZeroAddress, NoId, <<>>)

Created == Len(userPayments["A"]) + Len(userPayments["B"])

(* --------------------------- streaming payments ------------------------- *)
CreateStreamingError(caller, recipient, totalAmount, duration) ==
    IF recipient = ZeroAddress THEN "Invalid recipient"
    ELSE IF ~(totalAmount > 0) THEN "Amount must be positive"
    ELSE IF ~(duration > 0) THEN "Duration must be positive"
    ELSE IF ~TransferOk(balances, caller, Router, totalAmount) THEN "Transfer failed"
    ELSE OK

createStreamingPayment(caller, recipient, totalAmount, duration) ==
    LET paymentId == PaymentId("STREAM", caller, recipient, now)
    IN  /\ Created < MaxPayments
        /\ CreateStreamingError(caller, recipient, totalAmount, duration) = OK
        /\ balances' = Transfer(balances, caller, Router, totalAmount)
        /\ streamingPayments' = Store(streamingPayments, paymentId,
               [recipient |-> recipient, totalAmount |-> totalAmount,
                claimedAmount |-> 0, startTime |-> now,
                endTime |-> now + duration, lastClaimTime |-> now])
        /\ payments' = Store(payments, paymentId,
               [payer |-> caller, paymentType |-> "STREAMING",
                totalAmount |-> totalAmount, releasedAmount |-> 0,
                createdAt |-> now, completedAt |-> 0,
                isCompleted |-> FALSE, isCancelled |-> FALSE])
        /\ userPayments' = [userPayments EXCEPT ![caller] = Append(@, paymentId)]
        /\ last' = Call("createStreamingPayment", caller, paymentId,
                        <<Xfer(caller, Router, totalAmount)>>)
        /\ UNCHANGED <<engine, now, splitRecipients, conditionalPayments, recurringPayments, usedNonces,
                       totalPaymentsProcessed, totalVolumeProcessed>>

\* Mutant of StreamElapsed: the elapsed time is not capped at endTime.
StreamElapsedUncapped(stream, t) == t - stream.startTime

\* elapsed = block.timestamp > endTime ? endTime - startTime : block.timestamp - startTime
StreamElapsed(stream, t) ==
    IF t > stream.endTime THEN stream.endTime - stream.startTime
    ELSE t - stream.startTime

\* Mutant of VestedAmount: the product is not divided by the duration.
VestedAmountUndivided(stream, t) ==
    stream.totalAmount * StreamElapsed(stream, t)

\* vestedAmount = (totalAmount * elapsed) / totalDuration
VestedAmount(stream, t) ==
    (stream.totalAmount * StreamElapsed(stream, t))
        \div (stream.endTime - stream.startTime)

\* Mutant of Claimable: what was claimed before is not subtracted.
ClaimableWithoutClaimed(stream, t) == VestedAmount(stream, t)

\* claimable = vestedAmount - stream.claimedAmount
Claimable(stream, t) == VestedAmount(stream, t) - stream.claimedAmount

ClaimStreamingError(caller, paymentId) ==
    LET stream == StreamOf(paymentId)
    IN  IF stream.recipient # caller THEN "Not recipient"
        ELSE IF ~(stream.claimedAmount < stream.totalAmount) THEN "Fully claimed"
        ELSE IF Claimable(stream, now) < 0 THEN "Panic"
        ELSE IF ~(Claimable(stream, now) > 0) THEN "Nothing to claim"
        ELSE IF ~TransferOk(balances, Router, caller, Claimable(stream, now))
             THEN "Transfer failed"
        ELSE OK

claimStreamingPayment(caller, paymentId) ==
    LET stream == StreamOf(paymentId)
        claimable == Claimable(stream, now)
        claimed == stream.claimedAmount + claimable
        done == claimed >= stream.totalAmount
    IN  /\ ClaimStreamingError(caller, paymentId) = OK
        /\ streamingPayments' = Store(streamingPayments, paymentId,
               [stream EXCEPT !.claimedAmount = claimed, !.lastClaimTime = now])
        /\ payments' = Store(payments, paymentId,
               [PaymentOf(paymentId) EXCEPT
                   !.releasedAmount = claimed,
                   !.isCompleted = IF done THEN TRUE ELSE @,
                   !.completedAt = IF done THEN now ELSE @])
        /\ balances' = Transfer(balances, Router, caller, claimable)
        /\ last' = Call("claimStreamingPayment", caller, paymentId,
                        <<Xfer(Router, caller, claimable)>>)
        /\ UNCHANGED <<engine, now, splitRecipients, conditionalPayments, recurringPayments, userPayments,
                       usedNonces, totalPaymentsProcessed, totalVolumeProcessed>>

\* The view of the same amount; 0 for an id that names no stream.
getClaimableAmount(paymentId) ==
    LET stream == StreamOf(paymentId)
    IN  IF stream.recipient = ZeroAddress THEN 0
        ELSE (stream.totalAmount * StreamElapsed(stream, now))
                 \div (stream.endTime - stream.startTime)
             - stream.claimedAmount

(* -------------------------- conditional payments ------------------------ *)
CreateConditionalError(caller, recipient, amount) ==
    IF recipient = ZeroAddress THEN "Invalid recipient"
    ELSE IF ~(amount > 0) THEN "Amount must be positive"
    ELSE IF ~TransferOk(balances, caller, Router, amount) THEN "Transfer failed"
    ELSE OK

createConditionalPayment(caller, recipient, amount, conditionContract, conditionData) ==
    LET paymentId == PaymentId("CONDITIONAL", caller, recipient, now)
    IN  /\ Created < MaxPayments
        /\ CreateConditionalError(caller, recipient, amount) = OK
        /\ balances' = Transfer(balances, caller, Router, amount)
        /\ conditionalPayments' = Store(conditionalPayments, paymentId,
               [recipient |-> recipient, amount |-> amount,
                conditionContract |-> conditionContract,
                conditionData |-> conditionData, isReleased |-> FALSE])
        /\ payments' = Store(payments, paymentId,
               [payer |-> caller, paymentType |-> "CONDITIONAL",
                totalAmount |-> amount, releasedAmount |-> 0,
                createdAt |-> now, completedAt |-> 0,
                isCompleted |-> FALSE, isCancelled |-> FALSE])
        /\ userPayments' = [userPayments EXCEPT ![caller] = Append(@, paymentId)]
        /\ last' = Call("createConditionalPayment", caller, paymentId,
                        <<Xfer(caller, Router, amount)>>)
        /\ UNCHANGED <<engine, now, splitRecipients, streamingPayments, recurringPayments, usedNonces,
                       totalPaymentsProcessed, totalVolumeProcessed>>

\* The outcomes of conditionContract.staticcall(conditionData) followed by
\* abi.decode(result, (bool)): the call fails (or returns no bool), or it
\* returns true, or it returns false.
PredicateOutcomes == {"revert", "true", "false"}

\* Mutant of ConditionMet: only the success of the staticcall is required.
ConditionMetOnSuccess(condPayment, outcome) ==
    condPayment.conditionContract = ZeroAddress \/ outcome # "revert"

\* if (conditionContract != address(0)) { staticcall; require(success && decoded) }
ConditionMet(condPayment, outcome) ==
    condPayment.conditionContract = ZeroAddress \/ outcome = "true"

\* Whether the call reaches the staticcall, and what it then sees.
PredicateSeen(condPayment, outcome) ==
    IF ~condPayment.isReleased /\ condPayment.conditionContract # ZeroAddress
    THEN outcome ELSE "none"

\* Mutant of ReleaseReceiver: whoever triggers the release is paid.
ReleaseReceiverCaller(caller, condPayment) == caller

\* paymentToken.safeTransfer(condPayment.recipient, condPayment.amount)
ReleaseReceiver(caller, condPayment) == condPayment.recipient

ReleaseConditionalError(paymentId, outcome) ==
    LET condPayment == ConditionalOf(paymentId)
    IN  IF condPayment.isReleased THEN "Already released"
        ELSE IF ~ConditionMet(condPayment, outcome) THEN "Condition not met"
        ELSE IF ~TransferOk(balances, Router, condPayment.recipient, condPayment.amount)
             THEN "Transfer failed"
        ELSE OK

releaseConditionalPayment(caller, paymentId, outcome) ==
    LET condPayment == ConditionalOf(paymentId)
    IN  /\ ReleaseConditionalError(paymentId, outcome) = OK
        /\ conditionalPayments' = Store(conditionalPayments, paymentId,
               [condPayment EXCEPT !.isReleased = TRUE])
        /\ payments' = Store(payments, paymentId,
               [PaymentOf(paymentId) EXCEPT
                   !.releasedAmount = condPayment.amount,
                   !.isCompleted = TRUE,
                   !.completedAt = now])
        /\ balances' = Transfer(balances, Router,
                                ReleaseReceiver(caller, condPayment),
                                condPayment.amount)
        /\ totalVolumeProcessed' = totalVolumeProcessed + condPayment.amount
        /\ last' = [Call("releaseConditionalPayment", caller, paymentId,
                         <<Xfer(Router, ReleaseReceiver(caller, condPayment),
                                condPayment.amount)>>)
                       EXCEPT !.predicate = PredicateSeen(condPayment, outcome)]
        /\ UNCHANGED <<engine, now, splitRecipients, streamingPayments, recurringPayments, userPayments,
                       usedNonces, totalPaymentsProcessed>>

(* --------------------------- recurring payments ------------------------- *)
CreateRecurringError(caller, recipient, amount, interval, totalPayments) ==
    IF recipient = ZeroAddress THEN "Invalid recipient"
    ELSE IF ~(amount > 0 /\ interval > 0 /\ totalPayments > 0) THEN "Invalid parameters"
    ELSE IF ~TransferOk(balances, caller, Router, amount * totalPayments)
         THEN "Transfer failed"
    ELSE OK

createRecurringPayment(caller, recipient, amount, interval, totalPayments) ==
    LET paymentId == PaymentId("RECURRING", caller, recipient, now)
        fullAmount == amount * totalPayments
    IN  /\ Created < MaxPayments
        /\ CreateRecurringError(caller, recipient, amount, interval, totalPayments) = OK
        /\ balances' = Transfer(balances, caller, Router, fullAmount)
        /\ recurringPayments' = Store(recurringPayments, paymentId,
               [payer |-> caller, recipient |-> recipient, amount |-> amount,
                interval |-> interval, nextPaymentTime |-> now,
                totalPayments |-> totalPayments, completedPayments |-> 0,
                isActive |-> TRUE])
        /\ payments' = Store(payments, paymentId,
               [payer |-> caller, paymentType |-> "RECURRING",
                totalAmount |-> fullAmount, releasedAmount |-> 0,
                createdAt |-> now, completedAt |-> 0,
                isCompleted |-> FALSE, isCancelled |-> FALSE])
        /\ userPayments' = [userPayments EXCEPT ![caller] = Append(@, paymentId)]
        /\ last' = Call("createRecurringPayment", caller, paymentId,
                        <<Xfer(caller, Router, fullAmount)>>)
        /\ UNCHANGED <<engine, now, splitRecipients, streamingPayments, conditionalPayments, usedNonces,
                       totalPaymentsProcessed, totalVolumeProcessed>>

\* Mutant of ExecuteRecurringError: the due time is not checked.
ExecuteRecurringErrorNoDueCheck(paymentId) ==
    LET recurring == RecurringOf(paymentId)
    IN  IF ~recurring.isActive THEN "Not active"
        ELSE IF ~(recurring.completedPayments < recurring.totalPayments)
             THEN "All payments completed"
        ELSE IF ~TransferOk(balances, Router, recurring.recipient, recurring.amount)
             THEN "Transfer failed"
        ELSE OK

ExecuteRecurringError(paymentId) ==
    LET recurring == RecurringOf(paymentId)
    IN  IF ~recurring.isActive THEN "Not active"
        ELSE IF ~(now >= recurring.nextPaymentTime) THEN "Not yet due"
        ELSE IF ~(recurring.completedPayments < recurring.totalPayments)
             THEN "All payments completed"
        ELSE IF ~TransferOk(balances, Router, recurring.recipient, recurring.amount)
             THEN "Transfer failed"
        ELSE OK

\* recurring.nextPaymentTime = block.timestamp + recurring.interval
NextPaymentTime(recurring, t) == t + recurring.interval

executeRecurringPayment(caller, paymentId) ==
    LET recurring == RecurringOf(paymentId)
        completed == recurring.completedPayments + 1
        done == completed >= recurring.totalPayments
    IN  /\ ExecuteRecurringError(paymentId) = OK
        /\ balances' = Transfer(balances, Router, recurring.recipient, recurring.amount)
        /\ recurringPayments' = Store(recurringPayments, paymentId,
               [recurring EXCEPT
                   !.completedPayments = completed,
                   !.nextPaymentTime = NextPaymentTime(recurring, now),
                   !.isActive = IF done THEN FALSE ELSE @])
        /\ payments' = Store(payments, paymentId,
               [PaymentOf(paymentId) EXCEPT
                   !.releasedAmount = @ + recurring.amount,
                   !.isCompleted = IF done THEN TRUE ELSE @,
                   !.completedAt = IF done THEN now ELSE @])
        /\ totalVolumeProcessed' = totalVolumeProcessed + recurring.amount
        /\ last' = Call("executeRecurringPayment", caller, paymentId,
                        <<Xfer(Router, recurring.recipient, recurring.amount)>>)
        /\ UNCHANGED <<engine, now, splitRecipients, streamingPayments, conditionalPayments, userPayments,
                       usedNonces, totalPaymentsProcessed>>

(* ------------------------------ cancellation ---------------------------- *)
\* Mutant of RefundAmount: the whole amount is refunded.
RefundAmountTotal(payment) == payment.totalAmount

\* uint256 refundAmount = payment.totalAmount - payment.releasedAmount
RefundAmount(payment) == payment.totalAmount - payment.releasedAmount

\* paymentToken.safeTransfer(msg.sender, refundAmount)
RefundReceiver(caller, payment) == caller

CancelError(caller, paymentId) ==
    LET payment == PaymentOf(paymentId)
    IN  IF payment.payer # caller THEN "Not payer"
        ELSE IF ~(~payment.isCompleted /\ ~payment.isCancelled) THEN "Cannot cancel"
        ELSE IF RefundAmount(payment) < 0 THEN "Panic"
        ELSE IF RefundAmount(payment) > 0
                /\ ~TransferOk(balances, Router, RefundReceiver(caller, payment),
                               RefundAmount(payment))
             THEN "Transfer failed"
        ELSE OK

cancelPayment(caller, paymentId) ==
    LET payment == PaymentOf(paymentId)
        refundAmount == RefundAmount(payment)
        receiver == RefundReceiver(caller, payment)
    IN  /\ CancelError(caller, paymentId) = OK
        /\ payments' = Store(payments, paymentId,
               [payment EXCEPT !.isCancelled = TRUE, !.completedAt = now])
        /\ balances' = IF refundAmount > 0
                       THEN Transfer(balances, Router, receiver, refundAmount)
                       ELSE balances
        /\ recurringPayments' =
               IF payment.paymentType = "RECURRING"
               THEN Store(recurringPayments, paymentId,
                          [RecurringOf(paymentId) EXCEPT !.isActive = FALSE])
               ELSE recurringPayments
        /\ last' = Call("cancelPayment", caller, paymentId,
                        IF refundAmount > 0
                        THEN <<Xfer(Router, receiver, refundAmount)>>
                        ELSE <<>>)
        /\ UNCHANGED <<engine, now, splitRecipients, streamingPayments, conditionalPayments, userPayments,
                       usedNonces, totalPaymentsProcessed, totalVolumeProcessed>>

(* ------------------------- x402 authorized payment ---------------------- *)
\* require(block.timestamp >= validAfter, "Payment not yet valid")
NotYetValid(t, validAfter) == ~(t >= validAfter)

\* Mutant of Expired: the end of the window is taken as inclusive.
ExpiredAfter(t, validBefore) == ~(t <= validBefore)

\* require(block.timestamp < validBefore, "Payment expired")
Expired(t, validBefore) == ~(t < validBefore)

\* Mutant of MarkUsed: the nonce is not recorded.
MarkUsedNot(used, nonce) == used

\* usedNonces[nonce] = true
MarkUsed(used, nonce) == used \cup {nonce}

\* IERC20WithPermit.transferWithAuthorization: the token verifies the signature
\* (authorized says whether it does) and moves value from `from` to `to`.
AuthorizedTransferOk(bal, from, to, value, authorized) ==
    authorized /\ TransferOk(bal, from, to, value)

ProcessX402Error(from, to, value, validAfter, validBefore, nonce, authorized) ==
    IF nonce \in usedNonces THEN "Nonce already used"
    ELSE IF NotYetValid(now, validAfter) THEN "Payment not yet valid"
    ELSE IF Expired(now, validBefore) THEN "Payment expired"
    ELSE IF ~AuthorizedTransferOk(balances, from, to, value, authorized)
         THEN "Transfer failed"
    ELSE OK

\* A call stopped by one of the three requires has written nothing and is not
\* a step.  A call whose transferWithAuthorization reverts has marked the
\* nonce before: it is a step that records the error and commits nothing.
processX402Payment(caller, from, to, value, validAfter, validBefore, nonce, authorized) ==
    LET error == ProcessX402Error(from, to, value, validAfter, validBefore, nonce,
                                  authorized)
    IN  /\ error \in {OK, "Transfer failed"}
        /\ usedNonces' = Committed(error, usedNonces, MarkUsed(usedNonces, nonce))
        /\ balances' = Committed(error, balances, Transfer(balances, from, to, value))
        /\ totalPaymentsProcessed' =
               Committed(error, totalPaymentsProcessed, totalPaymentsProcessed + 1)
        /\ totalVolumeProcessed' =
               Committed(error, totalVolumeProcessed, totalVolumeProcessed + value)
        /\ last' = [Call("processX402Payment", caller, NoId,
                         IF error = OK THEN <<Xfer(from, to, value)>> ELSE <<>>)
                       EXCEPT !.nonce = nonce, !.validAfter = validAfter,
                              !.validBefore = validBefore, !.error = error,
                              !.value = value]
        /\ UNCHANGED <<engine, now, splitRecipients, payments, streamingPayments,
                       conditionalPayments, recurringPayments, userPayments>>

(* ----------------------------- split payments --------------------------- *)
\* keccak256(abi.encodePacked(msg.sender, block.timestamp, totalAmount, "SPLIT"))
SplitPaymentId(sender, timestamp, totalAmount) ==
    [salt |-> "SPLIT", sender |-> sender, recipient |-> ZeroAddress,
     amount |-> totalAmount, timestamp |-> timestamp]

\* Mutant of RecipientCountOk: the list has no upper limit.
RecipientCountAtLeastOne(recipients) == Len(recipients) > 0

\* recipients.length > 0 && recipients.length <= 20
RecipientCountOk(recipients) ==
    Len(recipients) > 0 /\ Len(recipients) <= MaxSplitRecipients

\* totalBps += recipients[i].basisPoints, over the whole list
RECURSIVE TotalBps(_)
TotalBps(recipients) ==
    IF recipients = <<>> THEN 0
    ELSE Head(recipients).basisPoints + TotalBps(Tail(recipients))

\* The requires made before the id is computed and any token is moved.
SplitValidationError(recipients) ==
    IF ~RecipientCountOk(recipients) THEN "Invalid recipient count"
    ELSE IF \E i \in 1..Len(recipients) : recipients[i].recipient = ZeroAddress
         THEN "Invalid recipient"
    ELSE IF ~(TotalBps(recipients) = BasisPointsTotal)
         THEN "Basis points must sum to 10000"
    ELSE OK

\* Mutant of Share: the share is rounded up.
ShareRoundedUp(totalAmount, basisPoints) ==
    (totalAmount * basisPoints + BasisPointsTotal - 1) \div BasisPointsTotal

\* recipientAmount = (totalAmount * recipients[i].basisPoints) / 10000
Share(totalAmount, basisPoints) ==
    (totalAmount * basisPoints) \div BasisPointsTotal

\* The distribution loop from index i on.  run holds the ledger, the entries
\* pushed to splitRecipients[paymentId] and the transfers made so far; the loop
\* stops at the first transfer the token refuses.  blocked: the accounts the
\* token refuses to pay during this call.
RECURSIVE Distribute(_, _, _, _, _)
Distribute(run, recipients, totalAmount, blocked, i) ==
    IF i > Len(recipients) THEN run
    ELSE LET to == recipients[i].recipient
             recipientAmount == Share(totalAmount, recipients[i].basisPoints)
         IN  IF to \in blocked
                \/ ~TransferOk(run.balances, Router, to, recipientAmount)
             THEN [run EXCEPT !.error = "Transfer failed"]
             ELSE Distribute(
                      [run EXCEPT
                          !.balances = Transfer(@, Router, to, recipientAmount),
                          !.stored = Append(@, recipients[i]),
                          !.sent = Append(@, Xfer(Router, to, recipientAmount))],
                      recipients, totalAmount, blocked, i + 1)

\* The body of createSplitPayment up to the end of the distribution loop, or
\* up to the statement that stops it.
SplitRun(caller, recipients, totalAmount, blocked) ==
    LET start == [balances |-> balances, stored |-> <<>>, sent |-> <<>>,
                  error |-> OK]
    IN  IF SplitValidationError(recipients) # OK
        THEN [start EXCEPT !.error = SplitValidationError(recipients)]
        ELSE IF ~TransferOk(balances, caller, Router, totalAmount)
        THEN [start EXCEPT !.error = "Transfer failed"]
        ELSE Distribute(
                 [start EXCEPT
                     !.balances = Transfer(@, caller, Router, totalAmount),
                     !.sent = <<Xfer(caller, Router, totalAmount)>>],
                 recipients, totalAmount, blocked, 1)

\* Mutant of SplitReleased: the amount recorded is what was paid out.
SplitReleasedPaidOut(totalAmount, sent) ==
    LET pushed[i \in 1..Len(sent)] ==
            IF i = 1 THEN 0 ELSE pushed[i - 1] + sent[i].amount
    IN  pushed[Len(sent)]

\* releasedAmount: totalAmount
SplitReleased(totalAmount, sent) == totalAmount

createSplitPayment(caller, recipients, totalAmount, blocked) ==
    /\ Created < MaxPayments
    /\ \E run \in {SplitRun(caller, recipients, totalAmount, blocked)} :
        LET paymentId == SplitPaymentId(caller, now, totalAmount)
            done == run.error = OK
            before ==
                [balances |-> balances, splitRecipients |-> splitRecipients,
                 payments |-> payments, userPayments |-> userPayments,
                 totalPaymentsProcessed |-> totalPaymentsProcessed,
                 totalVolumeProcessed |-> totalVolumeProcessed]
            after ==
                [balances |-> run.balances,
                 splitRecipients |->
                     IF run.stored = <<>> THEN splitRecipients
                     ELSE Store(splitRecipients, paymentId,
                                Lookup(splitRecipients, paymentId, <<>>) \o run.stored),
                 payments |->
                     IF done
                     THEN Store(payments, paymentId,
                              [payer |-> caller, paymentType |-> "SPLIT",
                               totalAmount |-> totalAmount,
                               releasedAmount |-> SplitReleased(totalAmount, run.sent),
                               createdAt |-> now, completedAt |-> now,
                               isCompleted |-> TRUE, isCancelled |-> FALSE])
                     ELSE payments,
                 userPayments |->
                     IF done THEN [userPayments EXCEPT ![caller] = Append(@, paymentId)]
                     ELSE userPayments,
                 totalPaymentsProcessed |->
                     IF done THEN totalPaymentsProcessed + 1 ELSE totalPaymentsProcessed,
                 totalVolumeProcessed |->
                     IF done THEN totalVolumeProcessed + totalAmount
                     ELSE totalVolumeProcessed]
            result == Committed(run.error, before, after)
        IN  /\ balances' = result.balances
            /\ splitRecipients' = result.splitRecipients
            /\ payments' = result.payments
            /\ userPayments' = result.userPayments
            /\ totalPaymentsProcessed' = result.totalPaymentsProcessed
            /\ totalVolumeProcessed' = result.totalVolumeProcessed
            /\ last' = [Call("createSplitPayment", caller,
                             IF done THEN paymentId ELSE NoId,
                             IF done THEN run.sent ELSE <<>>)
                           EXCEPT !.error = run.error,
                                  !.undone = IF done THEN 0 ELSE Len(run.sent)]
            /\ UNCHANGED <<engine, now, streamingPayments, conditionalPayments,
                           recurringPayments, usedNonces>>

(* ============================ WorkflowEngine ============================ *)
\* keccak256(abi.encodePacked(msg.sender, block.timestamp, name)): the id is a
\* function of exactly these inputs.
WorkflowId(sender, timestamp, name) ==
    [salt |-> name, sender |-> sender, recipient |-> Engine,
     amount |-> 0, timestamp |-> timestamp]

\* An unset slot of mapping(bytes32 => Workflow).  The id, the description and
\* the gas totals of a workflow are left out: no require reads them.
ZeroWorkflow ==
    [owner |-> ZeroAddress, name |-> "", steps |-> <<>>, isActive |-> FALSE,
     totalExecutions |-> 0, successfulExecutions |-> 0, createdAt |-> 0,
     lastExecutedAt |-> 0]

WorkflowOf(id) == Lookup(workflows, id, ZeroWorkflow)
ExecutionsOf(id) == Lookup(executions, id, <<>>)
KnownWorkflowIds == DOMAIN workflows \cup {NoId}

\* struct WorkflowStep, without gasLimit.  callData and conditionData are
\* given decoded: (to, amount) for TRANSFER, (time) for DELAY, (account,
\* threshold) or (timestamp) for CONDITION; decodes says whether the bytes
\* stored do decode to that (createWorkflow stores any bytes).
NoCallData == [to |-> ZeroAddress, amount |-> 0, time |-> 0, decodes |-> TRUE]
NoConditionData ==
    [account |-> ZeroAddress, threshold |-> 0, timestamp |-> 0, decodes |-> TRUE]
Step(stepType, nextStepOnSuccess, nextStepOnFailure) ==
    [stepType |-> stepType, agentId |-> "none", targetContract |-> ZeroAddress,
     callData |-> NoCallData, value |-> 0, conditionType |-> "CUSTOM",
     conditionData |-> NoConditionData,
     nextStepOnSuccess |-> nextStepOnSuccess,
     nextStepOnFailure |-> nextStepOnFailure]

(* ------------------------------ createWorkflow -------------------------- *)
CreateWorkflowError(name, steps) ==
    IF name = "" THEN "Name required"
    ELSE IF ~(Len(steps) > 0) THEN "At least one step required"
    ELSE IF ~(Len(steps) <= MaxWorkflowSteps) THEN "Too many steps"
    ELSE OK

\* The steps are pushed onto the steps the slot already holds, and the
\* counters of the slot are not reset.
createWorkflow(caller, name, steps) ==
    LET workflowId == WorkflowId(caller, now, name)
        workflow == WorkflowOf(workflowId)
    IN  /\ CreateWorkflowError(name, steps) = OK
        /\ workflows' = Store(workflows, workflowId,
               [workflow EXCEPT !.owner = caller, !.name = name,
                                !.isActive = TRUE, !.createdAt = now,
                                !.steps = @ \o steps])
        /\ allWorkflowIds' = Append(allWorkflowIds, workflowId)
        /\ userWorkflows' = [userWorkflows EXCEPT ![caller] = Append(@, workflowId)]
        /\ totalWorkflows' = totalWorkflows + 1
        /\ last' = Call("createWorkflow", caller, workflowId, <<>>)
        /\ UNCHANGED <<state, now, executions, totalExecutions, executionFee, ether>>

(* ------------------------------- the steps ------------------------------ *)
\* NexusRegistry.recordCall: it reverts for an agent that is not registered
\* or not active.  The agents registered are active and free of charge.
RegisteredAgents == {"agent"}
RecordCallOk(agentId) == agentId \in RegisteredAgents

\* a guard that lets every call in
NonReentrantErrorOff(entered) == OK

\* modifier nonReentrant: the call reverts while a guarded call of the contract
\* is running (entered), and the guard is held for the body of the function.
NonReentrantError(entered) ==
    IF entered THEN "ReentrancyGuardReentrantCall" ELSE OK

evaluateCondition(conditionType, conditionData, bal, t) ==
    IF conditionType = "BALANCE_GT"
    THEN bal[conditionData.account] > conditionData.threshold
    ELSE IF conditionType = "BALANCE_LT"
    THEN bal[conditionData.account] < conditionData.threshold
    ELSE IF conditionType = "TIME_GT" THEN t > conditionData.timestamp
    ELSE IF conditionType = "TIME_LT" THEN t < conditionData.timestamp
    ELSE TRUE

\* error: OK when _executeStep returns; else what made it revert.
StepResult(success, bal, eth, sent, nested) ==
    [success |-> success, balances |-> bal, ether |-> eth, sent |-> sent,
     nested |-> nested, error |-> OK]

\* abi.decode of bytes that do not hold the expected values reverts; the
\* decodes are outside every try.
DecodeReverts(bal, eth) ==
    [StepResult(FALSE, bal, eth, <<>>, <<>>) EXCEPT !.error = "abi.decode"]

\* the condition types whose conditionData _evaluateCondition decodes
DecodedConditionTypes == {"BALANCE_GT", "BALANCE_LT", "TIME_GT", "TIME_LT"}

\* targetContract.call{value: step.value}(step.callData), made by the engine:
\* the value is paid out of the engine's own balance, and the call fails when
\* that balance is short or the target reverts.  A call the target makes back
\* into executeWorkflow meets the guard; the target reverts when it does.
customCall(step, bal, eth, entered) ==
    IF eth[Engine] < step.value THEN StepResult(FALSE, bal, eth, <<>>, <<>>)
    ELSE IF step.targetContract = Reentrant
    THEN LET inner == NonReentrantError(entered)
         IN  StepResult(inner = OK, bal, eth, <<>>, <<inner>>)
    ELSE StepResult(TRUE, bal,
                    [[eth EXCEPT ![Engine] = @ - step.value]
                          EXCEPT ![step.targetContract] = @ + step.value],
                    <<>>, <<>>)

\* _executeStep, for msg.sender = caller at block.timestamp = t; entered: the
\* state of the guard.
executeStep(step, caller, bal, eth, t, entered) ==
    IF step.stepType = "CALL_AGENT"
    THEN StepResult(RecordCallOk(step.agentId), bal, eth, <<>>, <<>>)
    ELSE IF step.stepType = "TRANSFER"
    THEN IF ~step.callData.decodes THEN DecodeReverts(bal, eth)
         ELSE IF TransferOk(bal, caller, step.callData.to, step.callData.amount)
         THEN StepResult(TRUE,
                         Transfer(bal, caller, step.callData.to, step.callData.amount),
                         eth,
                         <<Xfer(caller, step.callData.to, step.callData.amount)>>,
                         <<>>)
         ELSE StepResult(FALSE, bal, eth, <<>>, <<>>)
    ELSE IF step.stepType = "CONDITION"
    THEN IF step.conditionType \in DecodedConditionTypes /\ ~step.conditionData.decodes
         THEN DecodeReverts(bal, eth)
         ELSE StepResult(evaluateCondition(step.conditionType, step.conditionData,
                                           bal, t),
                         bal, eth, <<>>, <<>>)
    ELSE IF step.stepType = "CUSTOM" THEN customCall(step, bal, eth, entered)
    ELSE IF step.stepType = "DELAY"
    THEN IF ~step.callData.decodes THEN DecodeReverts(bal, eth)
         ELSE StepResult(t >= step.callData.time, bal, eth, <<>>, <<>>)
    ELSE StepResult(TRUE, bal, eth, <<>>, <<>>)

(* ------------------------------ executeWorkflow ------------------------- *)
\* require(msg.value >= executionFee, ...) read as a check against the fee
\* the contract was deployed with
ExecuteWorkflowErrorInitialFee(workflowId, startStep, value) ==
    IF WorkflowOf(workflowId).owner = ZeroAddress THEN "Workflow not found"
    ELSE IF ~WorkflowOf(workflowId).isActive THEN "Workflow not active"
    ELSE IF ~(startStep < Len(WorkflowOf(workflowId).steps)) THEN "Invalid start step"
    ELSE IF ~(value >= InitialExecutionFee) THEN "Insufficient execution fee"
    ELSE OK

ExecuteWorkflowError(workflowId, startStep, value) ==
    IF NonReentrantError(FALSE) # OK THEN NonReentrantError(FALSE)
    ELSE IF WorkflowOf(workflowId).owner = ZeroAddress THEN "Workflow not found"
    ELSE IF ~WorkflowOf(workflowId).isActive THEN "Workflow not active"
    ELSE IF ~(startStep < Len(WorkflowOf(workflowId).steps)) THEN "Invalid start step"
    ELSE IF ~(value >= executionFee) THEN "Insufficient execution fee"
    ELSE OK

\* if (!stepSuccess && step.nextStepOnFailure == type(uint256).max)
AbortsNever(stepSuccess, step) == FALSE

Aborts(stepSuccess, step) == ~stepSuccess /\ step.nextStepOnFailure = UintMax

\* currentStep = stepSuccess ? step.nextStepOnSuccess : step.nextStepOnFailure
NextStepOnSuccessAlways(stepSuccess, step) == step.nextStepOnSuccess

NextStep(stepSuccess, step) ==
    IF stepSuccess THEN step.nextStepOnSuccess ELSE step.nextStepOnFailure

\* a walk with a ceiling of one step
EndsAfterOneStep(currentStep, steps) == TRUE

\* if (currentStep >= workflow.steps.length || currentStep == type(uint256).max)
Ends(currentStep, steps) == currentStep >= Len(steps) \/ currentStep = UintMax

\* execution.success = stepSuccess, when the walk ends there
EndSuccessAlways(stepSuccess) == TRUE

EndSuccess(stepSuccess) == stepSuccess

\* The while loop, one iteration at a time.  run: the ledgers, the events and
\* the execution record so far; gas: the step evaluations still paid for.
RECURSIVE Walk(_, _, _, _)
Walk(run, steps, caller, t) ==
    IF ~(run.continueExecution /\ run.currentStep < Len(steps)) THEN run
    ELSE IF run.gas = 0 THEN [run EXCEPT !.error = "out of gas"]
    ELSE LET step == steps[run.currentStep + 1]
             r == executeStep(step, caller, run.balances, run.ether, t, run.entered)
             aborts == Aborts(r.success, step)
             next == NextStep(r.success, step)
             ends == Ends(next, steps)
         IN  IF r.error # OK THEN [run EXCEPT !.error = r.error]
             ELSE
             Walk([run EXCEPT
                     !.balances = r.balances,
                     !.ether = r.ether,
                     !.sent = @ \o r.sent,
                     !.nested = @ \o r.nested,
                     !.events = Append(@, [stepIndex |-> run.currentStep,
                                           success |-> r.success]),
                     !.gas = @ - 1,
                     !.currentStep = IF aborts THEN @ ELSE next,
                     !.success = IF aborts THEN FALSE
                                 ELSE IF ends THEN EndSuccess(r.success) ELSE @,
                     !.errorMessage = IF aborts THEN "Step failed without handler"
                                      ELSE @,
                     !.continueExecution = ~aborts /\ ~ends],
                  steps, caller, t)

\* The call up to the end of the loop: the requires, the msg.value received,
\* and the walk from startStep.
ExecuteRun(caller, workflowId, startStep, value) ==
    LET start == [balances |-> balances,
                  ether |-> [[ether EXCEPT ![caller] = @ - value]
                                    EXCEPT ![Engine] = @ + value],
                  sent |-> <<>>, nested |-> <<>>, events |-> <<>>,
                  gas |-> MaxGasSteps, currentStep |-> startStep,
                  success |-> FALSE, errorMessage |-> "",
                  continueExecution |-> TRUE,
                  entered |-> NonReentrantError(FALSE) = OK,
                  error |-> ExecuteWorkflowError(workflowId, startStep, value)]
    IN  IF start.error # OK THEN start
        ELSE Walk(start, WorkflowOf(workflowId).steps, caller, now)

\* a count of every execution as a success
CountSuccessAlways(count, success) == count + 1

\* if (execution.success) { workflow.successfulExecutions++; }
CountSuccess(count, success) == IF success THEN count + 1 ELSE count

executeWorkflow(caller, workflowId, startStep, value) ==
    /\ ether[caller] >= value
    /\ \E run \in {ExecuteRun(caller, workflowId, startStep, value)} :
        LET workflow == WorkflowOf(workflowId)
            execution == [workflowId |-> workflowId, executor |-> caller,
                          startStep |-> startStep, currentStep |-> run.currentStep,
                          completed |-> TRUE, success |-> run.success,
                          errorMessage |-> run.errorMessage,
                          startedAt |-> now, completedAt |-> now]
            done == run.error = OK
        IN  /\ balances' = Committed(run.error, balances, run.balances)
            /\ ether' = Committed(run.error, ether, run.ether)
            /\ executions' = Committed(run.error, executions,
                   Store(executions, workflowId,
                         Append(ExecutionsOf(workflowId), execution)))
            /\ workflows' = Committed(run.error, workflows,
                   Store(workflows, workflowId,
                         [workflow EXCEPT
                            !.totalExecutions = @ + 1,
                            !.successfulExecutions = CountSuccess(@, run.success),
                            !.lastExecutedAt = now]))
            /\ totalExecutions' = Committed(run.error, totalExecutions,
                                            totalExecutions + 1)
            /\ last' = [Call("executeWorkflow", caller, workflowId,
                             IF done THEN run.sent ELSE <<>>)
                           EXCEPT !.error = run.error,
                                  !.events = IF done THEN run.events ELSE <<>>,
                                  !.nested = IF done THEN run.nested ELSE <<>>,
                                  !.startStep = startStep,
                                  !.value = value]
            /\ UNCHANGED <<now, payments, splitRecipients, streamingPayments,
                           conditionalPayments, recurringPayments, userPayments,
                           usedNonces, totalPaymentsProcessed, totalVolumeProcessed,
                           userWorkflows, allWorkflowIds, totalWorkflows,
                           executionFee>>

(* ---------------------------- deactivateWorkflow ------------------------ *)
DeactivateWorkflowError(caller, workflowId) ==
    IF WorkflowOf(workflowId).owner # caller THEN "Not owner" ELSE OK

deactivateWorkflow(caller, workflowId) ==
    /\ DeactivateWorkflowError(caller, workflowId) = OK
    /\ workflows' = Store(workflows, workflowId,
                          [WorkflowOf(workflowId) EXCEPT !.isActive = FALSE])
    /\ last' = Call("deactivateWorkflow", caller, workflowId, <<>>)
    /\ UNCHANGED <<state, now, executions, userWorkflows, allWorkflowIds,
                   totalWorkflows, totalExecutions, executionFee, ether>>

(* ------------------------------- the owner ------------------------------ *)
OnlyOwnerError(caller) ==
    IF caller # EngineOwner THEN "OwnableUnauthorizedAccount" ELSE OK

setExecutionFee(caller, newFee) ==
    /\ OnlyOwnerError(caller) = OK
    /\ executionFee' = newFee
    /\ last' = [Call("setExecutionFee", caller, NoId, <<>>) EXCEPT !.value = newFee]
    /\ UNCHANGED <<state, now, workflows, executions, userWorkflows, allWorkflowIds,
                   totalWorkflows, totalExecutions, ether>>

\* payable(owner()).transfer(address(this).balance)
withdrawFees(caller) ==
    /\ OnlyOwnerError(caller) = OK
    /\ ether' = [[ether EXCEPT ![Engine] = 0]
                        EXCEPT ![EngineOwner] = @ + ether[Engine]]
    /\ last' = [Call("withdrawFees", caller, NoId, <<>>) EXCEPT !.value = ether[Engine]]
    /\ UNCHANGED <<state, now, workflows, executions, userWorkflows, allWorkflowIds,
                   totalWorkflows, totalExecutions, executionFee>>

(* --------------------------------- time --------------------------------- *)
\* block.timestamp moves on between transactions.
Tick ==
    /\ now < MaxTime
    /\ now' = now + 1
    /\ last' = Call("tick", ZeroAddress, NoId, <<>>)
    /\ UNCHANGED <<state, engine>>

(* ----------------------------- specification ---------------------------- *)
\* At the start user A holds InitialBalance tokens, B and the router none.  The
\* create calls considered name a recipient other than the caller (or none).
Recipients == Users \cup {ZeroAddress}

Next ==
    \/ \E caller \in Users : \E recipient \in Recipients \ {caller},
          amount \in 0..MaxAmount, conditionContract \in ConditionContracts,
          conditionData \in ConditionDatas :
          createConditionalPayment(caller, recipient, amount, conditionContract,
                                   conditionData)
    \/ \E caller \in Users : \E recipient \in Recipients \ {caller},
          amount \in 0..MaxAmount, interval \in 0..MaxDuration,
          totalPayments \in 0..MaxInstallments :
          createRecurringPayment(caller, recipient, amount, interval, totalPayments)
    \/ \E caller \in Users : \E recipient \in Recipients \ {caller},
          totalAmount \in 0..MaxAmount, duration \in 0..MaxDuration :
          createStreamingPayment(caller, recipient, totalAmount, duration)
    \/ Tick
    \/ \E caller \in Users, paymentId \in KnownIds :
          claimStreamingPayment(caller, paymentId)
    \/ \E caller \in Users, paymentId \in KnownIds, outcome \in PredicateOutcomes :
          releaseConditionalPayment(caller, paymentId, outcome)
    \/ \E caller \in Users, paymentId \in KnownIds :
          executeRecurringPayment(caller, paymentId)
    \/ \E caller \in Users, paymentId \in KnownIds :
          cancelPayment(caller, paymentId)

Spec == Init /\ [][Next]_vars

\* processX402Payment holds no escrow and reads none of the payment records.
NextX402 ==
    \/ Tick
    \/ \E caller \in Users, from \in Users, to \in Users, value \in 0..MaxAmount,
          validAfter \in 0..MaxWindow, validBefore \in 0..MaxWindow,
          nonce \in Nonces, authorized \in BOOLEAN :
          processX402Payment(caller, from, to, value, validAfter, validBefore,
                             nonce, authorized)

SpecX402 == Init /\ [][NextX402]_vars

\* The recipient lists tried: every list of up to MaxListLen entries naming
\* users, one list naming the zero address, and one list of n entries, sharing
\* BasisPointsTotal, for n at the limit and above it.
BasisPointChoices == {3000, 7000, BasisPointsTotal}
SplitEntries == [recipient : Users, basisPoints : BasisPointChoices]
ShortLists == UNION {[1..n -> SplitEntries] : n \in 0..MaxListLen}
ZeroRecipientList ==
    <<[recipient |-> "B", basisPoints |-> 3000],
      [recipient |-> ZeroAddress, basisPoints |-> 7000]>>
LongList(n) ==
    [i \in 1..n |->
        [recipient |-> "B",
         basisPoints |-> IF i = 1
                         THEN BasisPointsTotal - (n - 1) * (BasisPointsTotal \div n)
                         ELSE BasisPointsTotal \div n]]
SplitLists ==
    ShortLists \cup {ZeroRecipientList, LongList(MaxSplitRecipients),
                     LongList(MaxSplitRecipients + 1)}
BlockedSets == {{}, {"B"}}

\* Split payments in one block: the timestamp does not move.
NextSplit ==
    \E caller \in Users, recipients \in SplitLists, totalAmount \in 0..MaxAmount,
       blocked \in BlockedSets :
       createSplitPayment(caller, recipients, totalAmount, blocked)

SpecSplit == Init /\ [][NextSplit]_vars

\* The workflows walked: one or two steps, with every edge to a step, past the
\* end, or to no step.  The first step is of any kind (one of them a TRANSFER
\* whose callData does not decode), the second one a step that always succeeds
\* or one that always fails.
Edges == (0..MaxStepCount) \cup {UintMax}
Swap == Step("SWAP", UintMax, UintMax)
CallAgent(agentId) == [Step("CALL_AGENT", UintMax, UintMax) EXCEPT !.agentId = agentId]
TransferStep(to, amount) ==
    [Step("TRANSFER", UintMax, UintMax)
        EXCEPT !.callData = [NoCallData EXCEPT !.to = to, !.amount = amount]]
Delay(time) ==
    [Step("DELAY", UintMax, UintMax)
        EXCEPT !.callData = [NoCallData EXCEPT !.time = time]]
Custom(targetContract, value) ==
    [Step("CUSTOM", UintMax, UintMax)
        EXCEPT !.targetContract = targetContract, !.value = value]
Condition(conditionType, timestamp) ==
    [Step("CONDITION", UintMax, UintMax)
        EXCEPT !.conditionType = conditionType,
               !.conditionData = [NoConditionData EXCEPT !.timestamp = timestamp]]
Undecodable(step) ==
    [step EXCEPT !.callData = [@ EXCEPT !.decodes = FALSE],
                 !.conditionData = [@ EXCEPT !.decodes = FALSE]]
WithEdges(kinds) ==
    {[k EXCEPT !.nextStepOnSuccess = s, !.nextStepOnFailure = f] :
        k \in kinds, s \in Edges, f \in Edges}
FirstSteps ==
    WithEdges({Swap, CallAgent("agent"), CallAgent("unknown"), TransferStep("B", 1),
               Delay(1), Custom(Acceptor, 1), Custom(Reentrant, 1),
               Condition("TIME_GT", 0), Undecodable(TransferStep("B", 1))})
SecondSteps == WithEdges({Swap, CallAgent("unknown")})
WalkLists ==
    {<<first>> : first \in FirstSteps}
        \cup {<<first, second>> : first \in FirstSteps, second \in SecondSteps}

\* One workflow, created by A, is run once by A (who holds tokens) or by B
\* (who holds none), for the fee, from either step.
NextWalk ==
    \/ /\ totalWorkflows < 1
       /\ \E steps \in WalkLists : createWorkflow("A", "w", steps)
    \/ Tick
    \/ /\ totalExecutions < 1
       /\ \E caller \in Users, workflowId \in DOMAIN workflows,
             startStep \in 0..(MaxStepCount - 1) :
             executeWorkflow(caller, workflowId, startStep, InitialExecutionFee)

SpecWalk == Init /\ [][NextWalk]_vars

\* The engine within one block: A creates up to MaxWorkflows workflows, named
\* "w" or "v", out of two lists; they are run up to MaxExecutions times
\* (failing calls apart) and deactivated; the owner raises the fee and
\* withdraws.  The first list always succeeds; the second pays MaxFee out of
\* the engine and then moves a token, or fails if the engine holds less.
WorkflowNames == {"w", "v"}
WorkflowLists ==
    {<<Swap>>,
     <<[Custom(Acceptor, MaxFee) EXCEPT !.nextStepOnSuccess = 1],
       TransferStep("B", 1)>>}

NextWorkflow ==
    \/ /\ totalWorkflows < MaxWorkflows
       /\ \E name \in WorkflowNames, steps \in WorkflowLists :
             createWorkflow("A", name, steps)
    \/ /\ totalExecutions < MaxExecutions
       /\ \E caller \in Users, workflowId \in KnownWorkflowIds,
             startStep \in 0..(MaxStepCount - 1), value \in 1..MaxFee :
             executeWorkflow(caller, workflowId, startStep, value)
    \/ \E caller \in Users, workflowId \in KnownWorkflowIds :
          deactivateWorkflow(caller, workflowId)
    \/ \E caller \in Users : setExecutionFee(caller, MaxFee)
    \/ \E caller \in Users : withdrawFees(caller)

SpecWorkflow == Init /\ [][NextWorkflow]_vars



(* ================================ claims ================================ *)
Lifecycle == {"claimStreamingPayment", "releaseConditionalPayment",
              "executeRecurringPayment", "cancelPayment"}

(* C1: once cancelPayment has succeeded on a streaming payment, no            *)
(* claimStreamingPayment on that id succeeds (none transfers anything).       *)
C1_NoClaimAfterCancel ==
    [][last'.op = "claimStreamingPayment"
          => ~PaymentOf(last'.id).isCancelled]_vars

(* C2: no Payment has both isCompleted and isCancelled true.                  *)
C2_CompletedXorCancelled ==
    \A id \in DOMAIN payments :
        ~(payments[id].isCompleted /\ payments[id].isCancelled)

(* C3: once a Payment is completed or cancelled, no claim, release, execute   *)
(* or cancel changes its releasedAmount, completedAt, isCompleted or          *)
(* isCancelled.                                                               *)
C3_TerminalIsFrozen ==
    [][last'.op \in Lifecycle =>
          \A id \in DOMAIN payments :
              (payments[id].isCompleted \/ payments[id].isCancelled) =>
                  /\ payments'[id].releasedAmount = payments[id].releasedAmount
                  /\ payments'[id].completedAt = payments[id].completedAt
                  /\ payments'[id].isCompleted = payments[id].isCompleted
                  /\ payments'[id].isCancelled = payments[id].isCancelled]_vars

(* C4: every Payment has releasedAmount <= totalAmount.                       *)
C4_ReleasedWithinTotal ==
    \A id \in DOMAIN payments :
        payments[id].releasedAmount <= payments[id].totalAmount

\* A stream claimed in full by a claim made after its endTime.
C4_Witness ==
    /\ last.op = "claimStreamingPayment"
    /\ now > StreamOf(last.id).endTime
    /\ PaymentOf(last.id).releasedAmount = PaymentOf(last.id).totalAmount

(* C5: a successful cancelPayment moves exactly totalAmount - releasedAmount, *)
(* as recorded when it is called, from the router to the payer and changes    *)
(* no other balance.                                                          *)
C5_CancelRefundsRemainder ==
    [][last'.op = "cancelPayment" =>
          LET payment == PaymentOf(last'.id)
              refund == payment.totalAmount - payment.releasedAmount
          IN  balances' = [a \in Accounts |->
                              IF a = payment.payer THEN balances[a] + refund
                              ELSE IF a = Router THEN balances[a] - refund
                              ELSE balances[a]]]_vars

\* A streaming payment cancelled after a partial claim, with a refund made.
C5_Witness ==
    /\ last.op = "cancelPayment"
    /\ PaymentOf(last.id).paymentType = "STREAMING"
    /\ PaymentOf(last.id).releasedAmount > 0
    /\ last.sent = <<Xfer(Router, PaymentOf(last.id).payer,
                          PaymentOf(last.id).totalAmount
                              - PaymentOf(last.id).releasedAmount)>>
    /\ PaymentOf(last.id).totalAmount > PaymentOf(last.id).releasedAmount

(* C6: isReleased never goes from true back to false, and once it is true no  *)
(* releaseConditionalPayment on that id succeeds.                             *)
C6_ReleasedIsLatched ==
    [][\A id \in DOMAIN conditionalPayments :
          conditionalPayments[id].isReleased =>
              /\ ConditionalOf(id)'.isReleased
              /\ ~(last'.op = "releaseConditionalPayment" /\ last'.id = id)]_vars

(* C7 (as stated): releaseConditionalPayment succeeds only if, in that call,  *)
(* the predicate call was made, did not fail and returned true.               *)
C7_ReleaseOnlyOnTrue ==
    [][last'.op = "releaseConditionalPayment" => last'.predicate = "true"]_vars

(* C7 (amended): releaseConditionalPayment succeeds only if the stored        *)
(* conditionContract is the zero address (no predicate call is made) or the   *)
(* predicate call of that call did not fail and returned true.                *)
C7_ReleaseOnlyOnTrueOrNoCondition ==
    [][last'.op = "releaseConditionalPayment" =>
          IF ConditionalOf(last'.id).conditionContract = ZeroAddress
          THEN last'.predicate = "none"
          ELSE last'.predicate = "true"]_vars

\* A release that went through the predicate call.
C7_Witness ==
    /\ last.op = "releaseConditionalPayment"
    /\ last.predicate = "true"
    /\ ConditionalOf(last.id).conditionContract = Oracle
    /\ ConditionalOf(last.id).isReleased

X402Inputs ==
    [from : Users, to : Users, value : 0..MaxAmount, validAfter : 0..MaxWindow,
     validBefore : 0..MaxWindow, authorized : BOOLEAN]

(* C8: a nonce is accepted at most once: a successful processX402Payment      *)
(* records its nonce, which was not recorded before; the record is never      *)
(* cleared; and every submission carrying a recorded nonce fails with         *)
(* "Nonce already used".                                                      *)
C8_NonceAcceptedOnce ==
    /\ [][last'.op = "processX402Payment" /\ last'.error = OK =>
             last'.nonce \notin usedNonces /\ last'.nonce \in usedNonces']_vars
    /\ [][usedNonces \subseteq usedNonces']_vars
    /\ [](\A nonce \in usedNonces : \A i \in X402Inputs :
             ProcessX402Error(i.from, i.to, i.value, i.validAfter, i.validBefore,
                              nonce, i.authorized) = "Nonce already used")

\* The authorization just accepted is still inside its window and funded: only
\* the nonce record stands against accepting it a second time.
C8_Witness ==
    /\ last.op = "processX402Payment"
    /\ last.nonce \in usedNonces
    /\ last.validAfter <= now /\ now < last.validBefore
    /\ TransferOk(balances, last.sent[1].from, last.sent[1].to, last.sent[1].amount)

(* C9: processX402Payment succeeds only when validAfter <= now < validBefore; *)
(* outside the window it is stopped by one of the requires that precede the   *)
(* nonce being marked and the ledger being called.                            *)
C9_OnlyInsideWindow ==
    /\ [][last'.op = "processX402Payment" /\ last'.error = OK =>
             last'.validAfter <= now /\ now < last'.validBefore]_vars
    /\ [](\A nonce \in Nonces : \A i \in X402Inputs :
             (now < i.validAfter \/ now >= i.validBefore) =>
                 ProcessX402Error(i.from, i.to, i.value, i.validAfter,
                                  i.validBefore, nonce, i.authorized)
                     \in {"Nonce already used", "Payment not yet valid",
                          "Payment expired"})

\* An authorization accepted at the first instant of a window of length one.
C9_Witness ==
    /\ last.op = "processX402Payment"
    /\ last.validAfter = now
    /\ last.validBefore = now + 1
    /\ now > 0

(* C10: for every stream claimedAmount never decreases and never exceeds      *)
(* totalAmount, whatever the calls and their order.                           *)
C10_ClaimedMonotoneAndBounded ==
    /\ [](\A id \in DOMAIN streamingPayments :
             streamingPayments[id].claimedAmount <= streamingPayments[id].totalAmount)
    /\ [][\A id \in DOMAIN streamingPayments :
             StreamOf(id)'.claimedAmount >= streamingPayments[id].claimedAmount]_vars

\* A stream claimed in two parts.
C10_Witness ==
    /\ last.op = "claimStreamingPayment"
    /\ StreamOf(last.id).claimedAmount = StreamOf(last.id).totalAmount
    /\ last.sent[1].amount < StreamOf(last.id).totalAmount

Min(a, b) == IF a < b THEN a ELSE b

\* floor(totalAmount * (min(now, endTime) - startTime) / (endTime - startTime))
\*     - claimedAmount
StreamDue(stream, t) ==
    (stream.totalAmount * (Min(t, stream.endTime) - stream.startTime))
        \div (stream.endTime - stream.startTime)
    - stream.claimedAmount

(* C11: claimStreamingPayment succeeds only for the stream's recipient and    *)
(* then moves exactly floor(totalAmount * (min(now, endTime) - startTime) /   *)
(* (endTime - startTime)) - claimedAmount from the router to the recipient,   *)
(* the amount getClaimableAmount reports; it fails when that amount is 0.     *)
C11_ClaimPaysVestedToRecipient ==
    /\ [][last'.op = "claimStreamingPayment" =>
             LET stream == StreamOf(last'.id)
                 due == StreamDue(stream, now)
             IN  /\ last'.caller = stream.recipient
                 /\ due > 0
                 /\ due = getClaimableAmount(last'.id)
                 /\ last'.sent = <<Xfer(Router, stream.recipient, due)>>
                 /\ balances' = Transfer(balances, Router, stream.recipient, due)
                 /\ streamingPayments'[last'.id].claimedAmount
                        = stream.claimedAmount + due]_vars
    /\ [](\A caller \in Users, id \in KnownIds :
             IF caller # StreamOf(id).recipient
             THEN ClaimStreamingError(caller, id) = "Not recipient"
             ELSE StreamDue(StreamOf(id), now) = 0 =>
                      ClaimStreamingError(caller, id)
                          \in {"Fully claimed", "Nothing to claim"})

\* A claim made before endTime that pays a part of the stream.
C11_Witness ==
    /\ last.op = "claimStreamingPayment"
    /\ now < StreamOf(last.id).endTime
    /\ last.sent[1].amount > 0
    /\ last.sent[1].amount < StreamOf(last.id).totalAmount
    /\ last.sent[1].to = StreamOf(last.id).recipient

RecurringCompleted(id) ==
    /\ PaymentOf(id).paymentType = "RECURRING"
    /\ PaymentOf(id).isCompleted

(* C12: a recurring payment created with totalPayments = N is completed       *)
(* (isCompleted true, isActive false) exactly when N executeRecurringPayment  *)
(* calls have succeeded on it, each counted once, not before; from then on it *)
(* stays completed and no executeRecurringPayment on that id succeeds.        *)
C12_CompletedAfterExactlyN ==
    /\ [](\A id \in DOMAIN recurringPayments :
             /\ RecurringCompleted(id) <=>
                    recurringPayments[id].completedPayments
                        = recurringPayments[id].totalPayments
             /\ RecurringCompleted(id) => ~recurringPayments[id].isActive)
    /\ [][last'.op = "executeRecurringPayment" =>
             recurringPayments'[last'.id].completedPayments
                 = RecurringOf(last'.id).completedPayments + 1]_vars
    /\ [][\A id \in DOMAIN recurringPayments :
             RecurringCompleted(id) =>
                 /\ payments'[id].isCompleted
                 /\ ~(last'.op = "executeRecurringPayment" /\ last'.id = id)]_vars

(* C13: every successful executeRecurringPayment sets nextPaymentTime to its  *)
(* previous value plus interval, however late the call is made.               *)
C13_NextPaymentTimeAdvancesByInterval ==
    [][last'.op = "executeRecurringPayment" =>
          recurringPayments'[last'.id].nextPaymentTime
              = RecurringOf(last'.id).nextPaymentTime
                    + RecurringOf(last'.id).interval]_vars

\* What one successful executeRecurringPayment does: one amount goes from the
\* router to the recipient and completedPayments grows by one.
OneInstallment ==
    [][last'.op = "executeRecurringPayment" =>
          LET recurring == RecurringOf(last'.id)
          IN  /\ last'.sent = <<Xfer(Router, recurring.recipient, recurring.amount)>>
              /\ balances' = Transfer(balances, Router, recurring.recipient,
                                      recurring.amount)
              /\ recurringPayments'[last'.id].completedPayments
                     = recurring.completedPayments + 1
              /\ now >= recurring.nextPaymentTime]_vars

(* C14 (as stated): every successful executeRecurringPayment transfers        *)
(* exactly one amount to the recipient and adds exactly 1 to                  *)
(* completedPayments, however many intervals have elapsed; a call made while  *)
(* now < nextPaymentTime fails with the not-yet-due error.                    *)
C14_OneInstallmentElseNotYetDue ==
    /\ OneInstallment
    /\ [](\A id \in DOMAIN recurringPayments :
             now < recurringPayments[id].nextPaymentTime =>
                 ExecuteRecurringError(id) = "Not yet due")

(* C14 (amended): every successful executeRecurringPayment transfers exactly  *)
(* one amount to the recipient and adds exactly 1 to completedPayments,       *)
(* however many intervals have elapsed; a call made while now <               *)
(* nextPaymentTime fails: with the not-yet-due error if the schedule is       *)
(* active, with the not-active error if it is not.                            *)
C14_OneInstallmentElseNotDueOrInactive ==
    /\ OneInstallment
    /\ [](\A id \in DOMAIN recurringPayments :
             now < recurringPayments[id].nextPaymentTime =>
                 ExecuteRecurringError(id) =
                     IF recurringPayments[id].isActive THEN "Not yet due"
                     ELSE "Not active")

\* The first installment paid two intervals late, with one more still to pay;
\* the next call at this time is not yet due.
C14_Witness ==
    /\ last.op = "executeRecurringPayment"
    /\ RecurringOf(last.id).completedPayments = 1
    /\ RecurringOf(last.id).totalPayments = 2
    /\ now >= PaymentOf(last.id).createdAt + 2 * RecurringOf(last.id).interval
    /\ RecurringOf(last.id).isActive
    /\ now < RecurringOf(last.id).nextPaymentTime
    /\ PaymentOf(last.id).releasedAmount = RecurringOf(last.id).amount

(* C15: completedPayments <= totalPayments for every recurring payment, and   *)
(* isActive, once false, never returns to true.                               *)
C15_BoundedAndDeactivatedOnce ==
    /\ [](\A id \in DOMAIN recurringPayments :
             recurringPayments[id].completedPayments
                 <= recurringPayments[id].totalPayments)
    /\ [][\A id \in DOMAIN recurringPayments :
             ~recurringPayments[id].isActive =>
                 ~recurringPayments'[id].isActive]_vars

RecurringCancelled(id) ==
    /\ PaymentOf(id).paymentType = "RECURRING"
    /\ PaymentOf(id).isCancelled

(* C16: cancelPayment fails unless the caller is the payment's payer and the  *)
(* payment is neither completed nor cancelled; a successful cancel of a       *)
(* recurring payment leaves its schedule inactive, and from then on the       *)
(* schedule stays inactive and no executeRecurringPayment on it succeeds.     *)
C16_CancelGuardsAndStopsSchedule ==
    /\ [](\A caller \in Users, id \in KnownIds :
             (PaymentOf(id).payer # caller \/ PaymentOf(id).isCompleted
                  \/ PaymentOf(id).isCancelled) =>
                 CancelError(caller, id) \in {"Not payer", "Cannot cancel"})
    /\ [][last'.op = "cancelPayment" =>
             /\ last'.caller = PaymentOf(last'.id).payer
             /\ ~PaymentOf(last'.id).isCompleted
             /\ ~PaymentOf(last'.id).isCancelled
             /\ PaymentOf(last'.id).paymentType = "RECURRING" =>
                    ~recurringPayments'[last'.id].isActive]_vars
    /\ [][\A id \in DOMAIN recurringPayments :
             RecurringCancelled(id) =>
                 /\ ~recurringPayments'[id].isActive
                 /\ ~(last'.op = "executeRecurringPayment" /\ last'.id = id)]_vars

\* A createSplitPayment call that was accepted.
Accepted(call) == call.op = "createSplitPayment" /\ call.error = OK

\* The list an accepted call was given: the entries it appended to the stored
\* list of its id, one for each transfer after the pull.
GivenList(call, stored) ==
    SubSeq(stored, Len(stored) - (Len(call.sent) - 1) + 1, Len(stored))

SumOfBasisPoints(list) ==
    LET sum[i \in 0..Len(list)] ==
            IF i = 0 THEN 0 ELSE sum[i - 1] + list[i].basisPoints
    IN  sum[Len(list)]

\* The amounts of the transfers of a call after the first, added up.
PushedOut(sent) ==
    LET sum[i \in 1..Len(sent)] ==
            IF i = 1 THEN 0 ELSE sum[i - 1] + sent[i].amount
    IN  sum[Len(sent)]

SumOfShares(list, totalAmount) ==
    LET sum[i \in 0..Len(list)] ==
            IF i = 0 THEN 0
            ELSE sum[i - 1] + Share(totalAmount, list[i].basisPoints)
    IN  sum[Len(list)]

ValidationErrors ==
    {"Invalid recipient count", "Invalid recipient", "Basis points must sum to 10000"}

(* C17: createSplitPayment is accepted only if the list has between 1 and 20  *)
(* entries and the basis points sum to exactly 10000; otherwise it is         *)
(* rejected by the validation, with no transfer made and no record, counter   *)
(* or balance changed.                                                        *)
C17_SplitAcceptedOnlyIfWellFormed ==
    /\ [][Accepted(last') =>
             LET list == GivenList(last', splitRecipients'[last'.id])
             IN  /\ Len(list) >= 1 /\ Len(list) <= 20
                 /\ SumOfBasisPoints(list) = 10000]_vars
    /\ [](\A recipients \in SplitLists :
             ~(Len(recipients) >= 1 /\ Len(recipients) <= 20
                  /\ SumOfBasisPoints(recipients) = 10000) =>
                 SplitValidationError(recipients) \in ValidationErrors)
    /\ [][last'.op = "createSplitPayment" /\ last'.error \in ValidationErrors =>
             state' = state /\ last'.undone = 0 /\ last'.sent = <<>>]_vars

\* A list of exactly 20 entries accepted.
C17_Witness ==
    /\ Accepted(last)
    /\ Len(GivenList(last, splitRecipients[last.id])) = 20
    /\ last.sent[1].amount > 0

(* C18: for every accepted createSplitPayment with amount A the amounts       *)
(* pushed out, each floor(A * basisPoints / 10000), add up to at most A: the  *)
(* router never pays out more than it pulled from the caller.                 *)
C18_SplitNeverOverpays ==
    /\ [][Accepted(last') =>
             /\ PushedOut(last'.sent) <= last'.sent[1].amount
             /\ balances'[Router] >= balances[Router]]_vars
    /\ [](\A recipients \in SplitLists, totalAmount \in 0..MaxAmount :
             SplitValidationError(recipients) = OK =>
                 SumOfShares(recipients, totalAmount) <= totalAmount)

\* An accepted split whose shares, rounded down, leave dust in the router.
C18_Witness ==
    /\ Accepted(last)
    /\ PushedOut(last.sent) > 0
    /\ PushedOut(last.sent) < last.sent[1].amount
    /\ balances[Router] > 0

\* The transfers of a list, applied in order.
RECURSIVE ApplyTransfers(_, _)
ApplyTransfers(bal, sent) ==
    IF sent = <<>> THEN bal
    ELSE ApplyTransfers(Transfer(bal, Head(sent).from, Head(sent).to,
                                 Head(sent).amount), Tail(sent))

(* C19: an accepted createSplitPayment pays the recipients in list order,     *)
(* each exactly floor(totalAmount * basisPoints / 10000), and in the same     *)
(* step leaves the Payment with isCompleted = true and releasedAmount =       *)
(* totalAmount; for [(A,7000),(B,3000)] and 1000, A gets 700 and B gets 300.  *)
C19_SplitPaysInOrderAndCompletes ==
    /\ [][Accepted(last') =>
             LET id == last'.id
                 list == GivenList(last', splitRecipients'[id])
             IN  /\ last'.sent =
                        <<Xfer(last'.caller, Router, id.amount)>> \o
                        [i \in 1..Len(list) |->
                            Xfer(Router, list[i].recipient,
                                 (id.amount * list[i].basisPoints) \div 10000)]
                 /\ balances' = ApplyTransfers(balances, last'.sent)
                 /\ payments'[id].totalAmount = id.amount
                 /\ payments'[id].isCompleted
                 /\ payments'[id].releasedAmount = id.amount]_vars
    /\ [](Distribute([balances |-> [a \in Accounts |->
                                        IF a = Router THEN 1000 ELSE 0],
                      stored |-> <<>>, sent |-> <<>>, error |-> OK],
                     <<[recipient |-> "A", basisPoints |-> 7000],
                       [recipient |-> "B", basisPoints |-> 3000]>>,
                     1000, {}, 1).sent
              = <<Xfer(Router, "A", 700), Xfer(Router, "B", 300)>>)

\* A split between two recipients, the first paid before the second.
C19_Witness ==
    /\ Accepted(last)
    /\ Len(last.sent) = 3
    /\ last.sent[2].to = "A" /\ last.sent[2].amount = 1
    /\ last.sent[3].to = "B" /\ last.sent[3].amount = 0
    /\ PaymentOf(last.id).isCompleted
    /\ PaymentOf(last.id).releasedAmount = 2

Creates == {"createSplitPayment", "createStreamingPayment",
            "createConditionalPayment", "createRecurringPayment"}

(* C21: every successful create yields a Payment id that no earlier create    *)
(* produced, so no Payment and no mode-specific record is overwritten or      *)
(* appended to.                                                               *)
C21_CreatedIdsAreFresh ==
    [][last'.op \in Creates /\ last'.error = OK =>
          /\ last'.id \notin DOMAIN payments
          /\ \A id \in DOMAIN payments : payments'[id] = payments[id]
          /\ \A id \in DOMAIN streamingPayments :
                 streamingPayments'[id] = streamingPayments[id]
          /\ \A id \in DOMAIN conditionalPayments :
                 conditionalPayments'[id] = conditionalPayments[id]
          /\ \A id \in DOMAIN recurringPayments :
                 recurringPayments'[id] = recurringPayments[id]
          /\ \A id \in DOMAIN splitRecipients :
                 splitRecipients'[id] = splitRecipients[id]]_vars

(* ------------------------- the walk of a workflow ----------------------- *)
\* an executeWorkflow that returned: the record it appended is the latest one
Ran == last.op = "executeWorkflow" /\ last.error = OK
StepsOf(id) == WorkflowOf(id).steps
LatestExecution(id) == ExecutionsOf(id)[Len(ExecutionsOf(id))]
\* the k-th step evaluated by the latest call failed and has no failure handler
FailedUnhandled(call, steps, k) ==
    /\ ~call.events[k].success
    /\ steps[call.events[k].stepIndex + 1].nextStepOnFailure = UintMax

\* C22: in executeWorkflow, a step that fails and whose failure edge is the
\* no-handler sentinel ends the run at once: it is the last step evaluated,
\* the record has success = false, and its currentStep is the index of the
\* failing step.
C22_NoHandlerAborts ==
    [][Ran' =>
          \A k \in 1..Len(last'.events) :
              FailedUnhandled(last', StepsOf(last'.id), k) =>
                  /\ k = Len(last'.events)
                  /\ ~(LatestExecution(last.id))'.success
                  /\ (LatestExecution(last.id))'.currentStep
                         = last'.events[k].stepIndex]_vars

\* A two-step workflow whose first step would go on to the second had it
\* succeeded; it failed without a handler and the second was never evaluated.
C22_Witness ==
    /\ Ran
    /\ Len(StepsOf(last.id)) = 2
    /\ StepsOf(last.id)[1].nextStepOnSuccess = 1
    /\ last.events = <<[stepIndex |-> 0, success |-> FALSE]>>
    /\ FailedUnhandled(last, StepsOf(last.id), 1)
    /\ ~LatestExecution(last.id).success
    /\ LatestExecution(last.id).currentStep = 0

\* the edge the k-th evaluated step of the call was left by
EdgeTaken(call, steps, k) ==
    IF call.events[k].success
    THEN steps[call.events[k].stepIndex + 1].nextStepOnSuccess
    ELSE steps[call.events[k].stepIndex + 1].nextStepOnFailure
OutOfRange(index, steps) == index >= Len(steps) \/ index = UintMax

\* C23: when the walk ends because the edge taken leads out of range or is the
\* sentinel, the success of the execution is the outcome of the last step
\* evaluated, whatever the earlier steps did.
C23_SuccessIsLastOutcome ==
    [][Ran' =>
          LET n == Len(last'.events)
          IN  OutOfRange(EdgeTaken(last', StepsOf(last'.id), n), StepsOf(last'.id)) =>
                  (LatestExecution(last.id))'.success = last'.events[n].success]_vars

\* The first step failed and was routed to the second, which succeeded and
\* ended the walk: the run is recorded as a success.
C23_Witness ==
    /\ Ran
    /\ last.events = <<[stepIndex |-> 0, success |-> FALSE],
                       [stepIndex |-> 1, success |-> TRUE]>>
    /\ OutOfRange(EdgeTaken(last, StepsOf(last.id), 2), StepsOf(last.id))
    /\ LatestExecution(last.id).success

\* C24: a step that fails and whose failure edge is a valid index does not end
\* the run: the next step evaluated is the one at nextStepOnFailure; after a
\* step that succeeds with a valid success edge it is the one at
\* nextStepOnSuccess.  The first step evaluated is startStep.
C24_EdgesAreFollowed ==
    [][Ran' =>
          /\ last'.events[1].stepIndex = last'.startStep
          /\ \A k \in 1..Len(last'.events) :
                LET edge == EdgeTaken(last', StepsOf(last'.id), k)
                IN  ~OutOfRange(edge, StepsOf(last'.id)) =>
                        /\ k < Len(last'.events)
                        /\ last'.events[k + 1].stepIndex = edge]_vars

\* A TRANSFER by a caller without tokens failed at index 0 and the walk went on
\* at index 1, its failure edge, not at its success edge.
C24_Witness ==
    /\ Ran
    /\ Len(last.events) >= 2
    /\ StepsOf(last.id)[1].stepType = "TRANSFER"
    /\ StepsOf(last.id)[1].nextStepOnFailure = 1
    /\ StepsOf(last.id)[1].nextStepOnSuccess # 1
    /\ last.events[1] = [stepIndex |-> 0, success |-> FALSE]
    /\ last.events[2].stepIndex = 1

(* ----------------------- the engine's preconditions --------------------- *)
\* what executeWorkflow asks of its inputs, in the state it is called in
ExecutePreconditions(workflowId, startStep, value) ==
    /\ workflowId \in DOMAIN workflows
    /\ workflows[workflowId].isActive
    /\ startStep < Len(workflows[workflowId].steps)
    /\ value >= executionFee

\* C25: an executeWorkflow for a workflow that does not exist or is not
\* active, from a startStep that is not below the step count, or with less
\* than executionFee paid, fails; it appends no execution record and changes
\* no counter.
C25_ExecuteNeedsItsPreconditions ==
    [][(/\ last'.op = "executeWorkflow"
        /\ ~ExecutePreconditions(last'.id, last'.startStep, last'.value)) =>
          /\ last'.error # OK
          /\ executions' = executions
          /\ workflows' = workflows
          /\ totalExecutions' = totalExecutions
          /\ ether' = ether]_vars

\* The owner raised the fee; a call that pays the old fee for an active
\* workflow, from a valid step, failed.
C25_Witness ==
    /\ last.op = "executeWorkflow"
    /\ last.error = "Insufficient execution fee"
    /\ last.id \in DOMAIN workflows
    /\ workflows[last.id].isActive
    /\ last.startStep < Len(workflows[last.id].steps)
    /\ last.value = InitialExecutionFee
    /\ executionFee > InitialExecutionFee

\* C26: deactivateWorkflow succeeds only for the owner of the workflow and
\* changes nothing but isActive (the execution history and the counters stay);
\* a workflow that exists and is not active stays not active whatever is
\* called, so executeWorkflow on its id never succeeds again.
C26_DeactivationIsOwnersAndFinal ==
    [][/\ last'.op = "deactivateWorkflow" =>
              /\ last'.id \in DOMAIN workflows
              /\ workflows[last'.id].owner = last'.caller
              /\ workflows' = [workflows EXCEPT ![last'.id].isActive = FALSE]
              /\ executions' = executions
              /\ totalExecutions' = totalExecutions
              /\ totalWorkflows' = totalWorkflows
       /\ \A id \in DOMAIN workflows :
              ~workflows[id].isActive =>
                  /\ ~workflows'[id].isActive
                  /\ ~(Ran' /\ last'.id = id)]_vars

\* the step at index i is a DELAY that is not due at time t and whose failure
\* edge is i itself
WaitsOnItself(steps, i, t) ==
    /\ i < Len(steps)
    /\ steps[i + 1].stepType = "DELAY"
    /\ steps[i + 1].nextStepOnFailure = i
    /\ t < steps[i + 1].callData.time

\* C27: an executeWorkflow whose preconditions hold and that starts at a DELAY
\* step not yet due, with the failure edge back to the step itself, returns:
\* it appends a completed execution record instead of waiting for the clock.
C27_SelfDelayReturns ==
    [][(/\ last'.op = "executeWorkflow"
        /\ ExecutePreconditions(last'.id, last'.startStep, last'.value)
        /\ WaitsOnItself(StepsOf(last'.id), last'.startStep, now)) =>
          /\ last'.error = OK
          /\ Len(executions'[last'.id]) = Len(ExecutionsOf(last'.id)) + 1
          /\ (LatestExecution(last.id))'.completed]_vars

(* ------------------------------- re-entry ------------------------------- *)
\* the k-th step evaluated by the call was a CUSTOM call to the target that
\* calls back into executeWorkflow
CalledBack(call, steps, k) ==
    /\ steps[call.events[k].stepIndex + 1].stepType = "CUSTOM"
    /\ steps[call.events[k].stepIndex + 1].targetContract = Reentrant

C29_EngineBalanceNeverLowered ==
    [][last'.op = "executeWorkflow" => ether'[Engine] >= ether[Engine]]_vars

(* ---------------------------- escrow coverage --------------------------- *)
\* the payments that are neither completed nor cancelled
NonTerminal == {id \in DOMAIN payments :
                   ~payments[id].isCompleted /\ ~payments[id].isCancelled}
RECURSIVE UnreleasedOf(_)
UnreleasedOf(ids) ==
    IF ids = {} THEN 0
    ELSE LET id == CHOOSE x \in ids : TRUE
         IN  (payments[id].totalAmount - payments[id].releasedAmount)
                 + UnreleasedOf(ids \ {id})

\* C30: the router's token balance covers the unreleased remainder of every
\* payment that is neither completed nor cancelled, so no payout or refund is
\* made out of the escrow of another payment; and what a payment records as
\* released never exceeds what was escrowed for it.
C30_EscrowCoversUnreleased ==
    /\ balances[Router] >= UnreleasedOf(NonTerminal)
    /\ \A id \in DOMAIN payments :
           payments[id].releasedAmount <= payments[id].totalAmount

(* --------------------------- condition steps ---------------------------- *)
\* the k-th step evaluated by the call was a CONDITION step
IsCondition(call, steps, k) ==
    steps[call.events[k].stepIndex + 1].stepType = "CONDITION"

\* C31: a CONDITION step never triggers the no-handler abort: whatever its
\* failure edge is, the run leaves the step by nextStepOnSuccess when the
\* condition is true and by nextStepOnFailure when it is false, and the
\* no-handler error is not set for it.
C31_ConditionNeverAborts ==
    [][Ran' =>
          \A k \in 1..Len(last'.events) :
              IsCondition(last', StepsOf(last'.id), k) =>
                  IF k < Len(last'.events)
                  THEN last'.events[k + 1].stepIndex
                           = EdgeTaken(last', StepsOf(last'.id), k)
                  ELSE /\ (LatestExecution(last.id))'.currentStep
                              = EdgeTaken(last', StepsOf(last'.id), k)
                       /\ (LatestExecution(last.id))'.errorMessage = ""]_vars

(* ------------------------------- cycles --------------------------------- *)
\* from index i the success edges lead through n steps that are all in range
\* and all SWAP steps, which always succeed
RECURSIVE StaysOnSwaps(_, _, _)
StaysOnSwaps(steps, i, n) ==
    IF n = 0 THEN TRUE
    ELSE /\ i < Len(steps)
         /\ steps[i + 1].stepType = "SWAP"
         /\ StaysOnSwaps(steps, steps[i + 1].nextStepOnSuccess, n - 1)

\* more steps than the workflow has: one of them is visited twice
OnSwapCycle(steps, i) == StaysOnSwaps(steps, i, Len(steps) + 1)

\* C32: the walk has no step ceiling and no cycle detection: an
\* executeWorkflow whose preconditions hold and that starts on a cycle of
\* steps that always succeed never leaves the loop; it spends the gas of the
\* transaction and appends no execution record.
C32_CycleNeverCompletes ==
    [][(/\ last'.op = "executeWorkflow"
        /\ ExecutePreconditions(last'.id, last'.startStep, last'.value)
        /\ OnSwapCycle(StepsOf(last'.id), last'.startStep)) =>
          /\ last'.error = "out of gas"
          /\ executions' = executions
          /\ workflows' = workflows
          /\ totalExecutions' = totalExecutions]_vars

\* A call that started on a SWAP step whose success edge is its own index ran
\* out of gas; the workflow has no execution record.
C32_Witness ==
    /\ last.op = "executeWorkflow"
    /\ last.error = "out of gas"
    /\ last.startStep < Len(StepsOf(last.id))
    /\ StepsOf(last.id)[last.startStep + 1].stepType = "SWAP"
    /\ StepsOf(last.id)[last.startStep + 1].nextStepOnSuccess = last.startStep
    /\ ExecutionsOf(last.id) = <<>>

(* --------------------------- execution history -------------------------- *)
RECURSIVE Successes(_)
Successes(history) ==
    IF history = <<>> THEN 0
    ELSE (IF history[Len(history)].success THEN 1 ELSE 0)
             + Successes(SubSeq(history, 1, Len(history) - 1))

\* C33: each executeWorkflow that returns appends exactly one record, with
\* completed = true, to the history of its workflow and leaves the earlier
\* records and the other histories as they were; no other call changes a
\* history; and in every state a workflow's totalExecutions is the length of
\* its history and its successfulExecutions the number of records in it with
\* success = true.
C33_HistoryMatchesCounters ==
    /\ [](\A id \in DOMAIN workflows :
              /\ workflows[id].totalExecutions = Len(ExecutionsOf(id))
              /\ workflows[id].successfulExecutions = Successes(ExecutionsOf(id)))
    /\ [][IF Ran'
          THEN /\ \E execution \in {(LatestExecution(last.id))'} :
                      /\ execution.completed
                      /\ executions'[last'.id]
                             = Append(ExecutionsOf(last'.id), execution)
               /\ \A id \in DOMAIN executions \ {last'.id} :
                      executions'[id] = executions[id]
          ELSE executions' = executions]_vars

\* A workflow that was run twice, once failing and once succeeding.
C33_Witness ==
    \E id \in DOMAIN workflows :
        /\ Len(ExecutionsOf(id)) = 2
        /\ ExecutionsOf(id)[1].success # ExecutionsOf(id)[2].success
        /\ workflows[id].totalExecutions = 2
        /\ workflows[id].successfulExecutions = 1

(* ------------------------ x402: a failing transfer ---------------------- *)
\* C34: a processX402Payment whose authorized transfer fails leaves the nonce
\* unused, so that the nonce does not stand against a later submission, and
\* leaves totalPaymentsProcessed, totalVolumeProcessed and the ledger as they
\* were; one that succeeds raises the count by exactly 1 and the volume by
\* exactly value.
C34_FailedTransferKeepsNonce ==
    [][last'.op = "processX402Payment" =>
          IF last'.error = OK
          THEN /\ totalPaymentsProcessed' = totalPaymentsProcessed + 1
               /\ totalVolumeProcessed' = totalVolumeProcessed + last'.value
               /\ last'.sent[1].amount = last'.value
          ELSE /\ last'.nonce \notin usedNonces'
               /\ usedNonces' = usedNonces
               /\ balances' = balances
               /\ totalPaymentsProcessed' = totalPaymentsProcessed
               /\ totalVolumeProcessed' = totalVolumeProcessed
               /\ \A nonce \in Nonces : \A i \in X402Inputs :
                      nonce = last'.nonce =>
                          (ProcessX402Error(i.from, i.to, i.value, i.validAfter,
                                            i.validBefore, nonce, i.authorized)
                               # "Nonce already used")']_vars

\* A submission inside its window failed at the transfer; its nonce is unused
\* and another payment had been processed before.
C34_Witness ==
    /\ last.op = "processX402Payment"
    /\ last.error = "Transfer failed"
    /\ last.validAfter <= now /\ now < last.validBefore
    /\ last.nonce \notin usedNonces
    /\ totalPaymentsProcessed = 1

(* -------------------------- stored recipient lists ---------------------- *)
\* C35: in every state the recipient list stored for a split payment id has
\* between 1 and MaxSplitRecipients entries, and their basis points sum to
\* BasisPointsTotal.
C35_StoredSplitListWellFormed ==
    \A id \in DOMAIN splitRecipients :
        /\ Len(splitRecipients[id]) >= 1
        /\ Len(splitRecipients[id]) <= MaxSplitRecipients
        /\ TotalBps(splitRecipients[id]) = BasisPointsTotal

(* ----------------------------- stored workflows ------------------------- *)
\* C36: in every state each stored workflow holds exactly the step sequence
\* that was passed to the createWorkflow that created it (here one of
\* WorkflowLists), of 1 to MaxWorkflowSteps steps, also when the same owner
\* creates two workflows of the same name in the same block.
C36_StoredStepsAreThosePassed ==
    \A id \in DOMAIN workflows :
        /\ workflows[id].steps \in WorkflowLists
        /\ Len(workflows[id].steps) >= 1
        /\ Len(workflows[id].steps) <= MaxWorkflowSteps

(* ------------------------- the end of a stream -------------------------- *)
\* C37: for a stream that is not cancelled, once now >= endTime a claim by the
\* recipient goes through while anything is unclaimed, transfers the whole
\* unclaimed remainder and marks the payment completed; and a streaming
\* payment is completed only where claimedAmount >= totalAmount.
C37_FinalClaimCompletes ==
    /\ [](\A id \in DOMAIN streamingPayments :
              (/\ ~PaymentOf(id).isCancelled
               /\ now >= streamingPayments[id].endTime
               /\ streamingPayments[id].claimedAmount
                      < streamingPayments[id].totalAmount) =>
                  ClaimStreamingError(streamingPayments[id].recipient, id) = OK)
    /\ [][(/\ last'.op = "claimStreamingPayment"
           /\ ~PaymentOf(last'.id).isCancelled
           /\ now >= StreamOf(last'.id).endTime) =>
             /\ last'.sent[1].to = StreamOf(last'.id).recipient
             /\ last'.sent[1].amount = StreamOf(last'.id).totalAmount
                                          - StreamOf(last'.id).claimedAmount
             /\ payments'[last'.id].isCompleted]_vars
    /\ [](\A id \in DOMAIN streamingPayments :
              PaymentOf(id).isCompleted =>
                  streamingPayments[id].claimedAmount
                      >= streamingPayments[id].totalAmount)

(* ------------------------ released against paid out --------------------- *)
\* what a call moved out of the router
RECURSIVE SentByRouter(_)
SentByRouter(sent) ==
    IF sent = <<>> THEN 0
    ELSE (IF Head(sent).from = Router THEN Head(sent).amount ELSE 0)
             + SentByRouter(Tail(sent))

PayingCalls == {"createSplitPayment", "claimStreamingPayment",
                "releaseConditionalPayment", "executeRecurringPayment"}

\* C38: releasedAmount of a payment is what has been transferred out of escrow
\* to its recipients: it is 0 when the payment is created, every call that pays
\* recipients (split shares, a streaming claim, a conditional release, a
\* recurring installment) raises it by exactly what the call transferred, and
\* no other call changes it.
C38_ReleasedIsWhatWasPaid ==
    [][/\ last'.error = OK /\ last'.op \in PayingCalls =>
              payments'[last'.id].releasedAmount
                  = (IF last'.op \in Creates THEN 0
                     ELSE PaymentOf(last'.id).releasedAmount)
                        + SentByRouter(last'.sent)
       /\ last'.error = OK /\ last'.op \in Creates \ PayingCalls =>
              payments'[last'.id].releasedAmount = 0
       /\ \A id \in DOMAIN payments :
              (last'.error # OK \/ last'.id # id) =>
                  payments'[id].releasedAmount = payments[id].releasedAmount]_vars

(* ----------------------------- forward workflows ------------------------ *)
\* every edge of every step leads to a strictly larger index, out of range, or
\* is the sentinel
Forward(steps) ==
    \A i \in 1..Len(steps) :
        /\ steps[i].nextStepOnSuccess > i - 1
        /\ steps[i].nextStepOnFailure > i - 1

\* C39: for a workflow whose edges all lead forward (to a strictly larger
\* index, out of range, or the sentinel), an executeWorkflow that meets its
\* requires evaluates at most stepCount steps, evaluates no step twice, and
\* ends by appending one completed execution record.
C39_ForwardWorkflowCompletes ==
    [][(/\ last'.op = "executeWorkflow"
        /\ ExecutePreconditions(last'.id, last'.startStep, last'.value)
        /\ Forward(StepsOf(last'.id))) =>
          /\ last'.error = OK
          /\ Len(last'.events) <= Len(StepsOf(last'.id))
          /\ \A j, k \in 1..Len(last'.events) :
                 last'.events[j].stepIndex = last'.events[k].stepIndex => j = k
          /\ Len(executions'[last'.id]) = Len(ExecutionsOf(last'.id)) + 1
          /\ (LatestExecution(last.id))'.completed]_vars

(* ------------------------------ who is paid ----------------------------- *)
PaysOnlyTo(call, account) ==
    \A k \in 1..Len(call.sent) :
        call.sent[k].from = Router /\ call.sent[k].to = account

\* C40: whoever calls, a streaming claim, a conditional release and a
\* recurring installment pay only the recipient recorded for the payment, and
\* a cancellation pays only the recorded payer; what a release or an
\* installment transfers is the recorded amount to the recorded recipient,
\* whoever triggered it.  The recipient recorded is the one given to the
\* create, and no later call changes it or the payer.
C40_OnlyTheRecordedPartyIsPaid ==
    [][last'.error = OK =>
          /\ last'.op = "claimStreamingPayment" =>
                 PaysOnlyTo(last', StreamOf(last'.id).recipient)
          /\ last'.op = "releaseConditionalPayment" =>
                 last'.sent = <<Xfer(Router, ConditionalOf(last'.id).recipient,
                                     ConditionalOf(last'.id).amount)>>
          /\ last'.op = "executeRecurringPayment" =>
                 last'.sent = <<Xfer(Router, RecurringOf(last'.id).recipient,
                                     RecurringOf(last'.id).amount)>>
          /\ last'.op = "cancelPayment" =>
                 PaysOnlyTo(last', PaymentOf(last'.id).payer)
          /\ last'.op = "createStreamingPayment" =>
                 streamingPayments'[last'.id].recipient = last'.id.recipient
          /\ last'.op = "createConditionalPayment" =>
                 conditionalPayments'[last'.id].recipient = last'.id.recipient
          /\ last'.op = "createRecurringPayment" =>
                 recurringPayments'[last'.id].recipient = last'.id.recipient
          /\ last'.op \in Creates => payments'[last'.id].payer = last'.caller
          /\ \A id \in DOMAIN streamingPayments :
                 streamingPayments'[id].recipient = streamingPayments[id].recipient
          /\ \A id \in DOMAIN conditionalPayments :
                 conditionalPayments'[id].recipient
                     = conditionalPayments[id].recipient
          /\ \A id \in DOMAIN recurringPayments :
                 recurringPayments'[id].recipient = recurringPayments[id].recipient
          /\ \A id \in DOMAIN payments :
                 payments'[id].payer = payments[id].payer]_vars

\* The payer, not the recipient, triggered the release of a conditional
\* payment, and the recipient was paid the amount.
C40_Witness ==
    /\ last.op = "releaseConditionalPayment"
    /\ last.error = OK
    /\ last.caller = PaymentOf(last.id).payer
    /\ last.caller # ConditionalOf(last.id).recipient
    /\ last.sent = <<Xfer(Router, ConditionalOf(last.id).recipient,
                          ConditionalOf(last.id).amount)>>
    /\ ConditionalOf(last.id).amount > 0
====
